---- MODULE Spec2Model ----
(***************************************************************************)
(* Mifflin-St Jeor weight-loss calculator: the energy model, the two       *)
(* simulators and the console input of estimateLossFromDiet.py and         *)
(* estimateDaysToGoalWeight.py.                                            *)
(*                                                                         *)
(* Numbers.  The scripts compute in binary floating point.  Here every     *)
(* weight, height and calorie value is a fixed-point integer counting      *)
(* 1/Scale of its unit (milli-pounds, milli-inches, milli-kcal), and every *)
(* division rounds to the nearest unit, as every floating-point operation  *)
(* rounds to the nearest representable value.  Ages and day counts are     *)
(* Python ints and stay plain integers.                                    *)
(***************************************************************************)
EXTENDS Integers, Sequences, FiniteSets

\* Resolution of the fixed-point numbers: units per pound, inch or kcal.
Scale == 1000

\* Calories per pound of body weight (daily_deficit / 3500).
KcalPerLb == 3500

\* Step of the candidate intakes (range(0, int(initial_TDEE)+1, 500)).
IntakeStep == 500

\* Most iterations of the goal simulator's while loop the model follows for
\* one candidate intake.
MaxDays == 2500

\* Most days a trajectory is simulated for when the day count is drawn
\* directly (the console can ask for more, see ConsoleLines).
MaxSimDays == 6

\* Most rejected console lines the model counts.
MaxRejected == 2

-----------------------------------------------------------------------------
(* Arithmetic *)

\* a / b rounded to the nearest integer (b > 0), halves upwards.
RoundDiv(a, b) == (2 * a + b) \div (2 * b)

\* Python's int(x) of a float: truncation towards zero, in whole units.
Trunc(x) == IF x >= 0 THEN x \div Scale ELSE -((-x) \div Scale)

\* Python's max(0, x).
Max0(x) == IF x > 0 THEN x ELSE 0

\* str.lower() on the words the model's console can produce.
Lower(s) ==
    CASE s = "Male" -> "male"
      [] s = "FEMALE" -> "female"
      [] s = "Extra Active" -> "extra active"
      [] OTHER -> s

-----------------------------------------------------------------------------
(* EnergyModel: calculate_TDEE (identical in both scripts) *)

\* The activity table, each multiplier in fortieths:
\* 1.2 = 48/40, 1.375 = 55/40, 1.55 = 62/40, 1.725 = 69/40, 1.9 = 76/40.
activity_multipliers ==
    [a \in {"sedentary", "lightly active", "moderately active",
            "very active", "extra active"} |->
        CASE a = "sedentary" -> 48
          [] a = "lightly active" -> 55
          [] a = "moderately active" -> 62
          [] a = "very active" -> 69
          [] a = "extra active" -> 76]

\* activity_multipliers[activity_level] raises KeyError for an unknown level.
KeyError(activity_level) == activity_level \notin DOMAIN activity_multipliers

\* 10 * weight / 2.2
WeightTerm(weight) == RoundDiv(10 * weight * 10, 22)

\* The mutant of HeightTerm: inches divided by 2.54 instead of multiplied.
HeightTermDivides(height) == RoundDiv(RoundDiv(625 * height, 100) * 100, 254)

\* 6.25 * height * 2.54
HeightTerm(height) == RoundDiv(RoundDiv(625 * height, 100) * 254, 100)

\* The Mifflin-St Jeor basal metabolic rate; every sex but 'male' takes the
\* else branch.
BMR(sex, weight, height, age) ==
    IF Lower(sex) = "male"
    THEN WeightTerm(weight) + HeightTerm(height) - 5 * age * Scale + 5 * Scale
    ELSE WeightTerm(weight) + HeightTerm(height) - 5 * age * Scale - 161 * Scale

\* BMR * activity_multipliers[activity_level]; only evaluated when no
\* KeyError is raised.
calculate_TDEE(sex, weight, height, age, activity_level) ==
    RoundDiv(BMR(sex, weight, height, age) * activity_multipliers[activity_level], 40)

-----------------------------------------------------------------------------
(* State *)

VARIABLES
    tool,                      \* "tdee", "loss" or "goal": what is running
    pc,                        \* the position in it
    err,                       \* "none" or the uncaught exception
    rejected,                  \* console lines get_input has rejected so far
    sex, age, height, start_weight, activity_level,
    tdee,                      \* the value a direct calculate_TDEE call returned
    daily_intake, days, weight_records,
    goal_weight, initial_TDEE, daily_calories_scenarios, cand,
    current_weight, day_count, scenarios,
    origin,                    \* history: the candidate index of each scenario
    broke                      \* history: the candidate indices whose loop hit break

profile == <<sex, age, height, start_weight, activity_level>>
lossVars == <<daily_intake, days, weight_records>>
goalVars == <<goal_weight, initial_TDEE, daily_calories_scenarios, cand,
              current_weight, day_count, scenarios, origin, broke>>
vars == <<tool, pc, err, rejected, profile, tdee, lossVars, goalVars>>

Genders == {"male", "female"}
Levels == DOMAIN activity_multipliers

\* The values of the variables a run does not use.
NoLoss == daily_intake = 0 /\ days = 0 /\ weight_records = <<>>
NoGoal ==
    /\ goal_weight = 0 /\ initial_TDEE = 0 /\ daily_calories_scenarios = <<>>
    /\ cand = 0 /\ current_weight = 0 /\ day_count = 0 /\ scenarios = <<>>
    /\ origin = <<>> /\ broke = {}

-----------------------------------------------------------------------------
(* A direct call of calculate_TDEE *)

InitTDEE ==
    /\ tool = "tdee" /\ pc = "call" /\ err = "none" /\ rejected = 0
    /\ sex \in Genders
    /\ age \in {1, 15, 30, 202, 203}
    /\ height \in {1 * Scale, 48 * Scale, 70 * Scale}
    /\ start_weight \in {1 * Scale, 90 * Scale, 200 * Scale}
    /\ activity_level \in Levels
    /\ tdee = 0
    /\ NoLoss /\ NoGoal

ApplyTDEE ==
    /\ tool = "tdee" /\ pc = "call"
    /\ tdee' = calculate_TDEE(sex, start_weight, height, age, activity_level)
    /\ pc' = "done"
    /\ UNCHANGED <<tool, err, rejected, profile, lossVars, goalVars>>

SpecTDEE == InitTDEE /\ [][ApplyTDEE]_vars

\* C8 as claimed: calculate_TDEE is > 0 for every valid profile (sex male or
\* female, height > 0, age > 0, a recognized activity level) and weight > 0.
C8_PositiveForEveryValidProfile ==
    (tool = "tdee" /\ pc = "done" /\ height > 0 /\ age > 0 /\ start_weight > 0)
        => tdee > 0

\* C8 as amended: calculate_TDEE is > 0 for every profile with height of at
\* least 48 inches, weight of at least 90 pounds and age from 1 to 202.
C8_PositiveInRange ==
    (/\ tool = "tdee" /\ pc = "done"
     /\ height >= 48 * Scale /\ start_weight >= 90 * Scale
     /\ age >= 1 /\ age <= 202)
        => tdee > 0

\* The tightest case of C8_PositiveInRange has been computed: a female of
\* 90 pounds, 48 inches and 202 years.
C8_Witness ==
    /\ tool = "tdee" /\ pc = "done"
    /\ sex = "female" /\ age = 202
    /\ height = 48 * Scale /\ start_weight = 90 * Scale
    /\ tdee > 0

-----------------------------------------------------------------------------
(* TrajectorySimulator: calculate_weight_loss (estimateLossFromDiet.py) *)

\* The mutant of LoopDays: range(1, days), one iteration short.
LoopDaysShort(n) == n - 1

\* The iterations of "for day in range(1, days + 1)".
LoopDays(n) == IF n > 0 THEN n ELSE 0

\* The mutant of PreviousWeight: the expenditure stays that of the start.
FirstWeight(records) == records[1]

\* current_weight = weight_records[-1]
PreviousWeight(records) == records[Len(records)]

\* daily_loss = daily_deficit / 3500
DailyLoss(daily_deficit) == RoundDiv(daily_deficit, KcalPerLb)

\* The mutant of NewWeight: the max(0, ...) forgotten.
NewWeightUnclamped(weight, daily_loss) == weight - daily_loss

\* new_weight = max(0, current_weight - daily_loss)
NewWeight(weight, daily_loss) == Max0(weight - daily_loss)

\* The <<age, height>> pairs the simulations are run for.
Bodies == {<<30, 70 * Scale>>, <<40, 65 * Scale>>}

InitLoss ==
    /\ tool = "loss" /\ pc = "call" /\ err = "none" /\ rejected = 0
    /\ sex \in Genders
    /\ \E body \in Bodies : age = body[1] /\ height = body[2]
    /\ start_weight \in {0, 1 * Scale, 90 * Scale, 200 * Scale}
    /\ activity_level \in Levels
    /\ daily_intake \in
          {0, 1500 * Scale, 5000 * Scale,
           Max0(calculate_TDEE(sex, start_weight, height, age, activity_level))}
    /\ days \in 1..MaxSimDays
    /\ weight_records = <<>>
    /\ tdee = 0
    /\ NoGoal

\* weight_records = [start_weight]
LossCall ==
    /\ tool = "loss" /\ pc = "call"
    /\ weight_records' = <<start_weight>>
    /\ pc' = "loop"
    /\ UNCHANGED <<tool, err, rejected, profile, tdee, daily_intake, days, goalVars>>

\* One iteration of the for loop.
LossDay ==
    /\ tool = "loss" /\ pc = "loop"
    /\ Len(weight_records) - 1 < LoopDays(days)
    /\ IF KeyError(activity_level)
       THEN /\ err' = "KeyError" /\ pc' = "raised"
            /\ UNCHANGED weight_records
       ELSE LET weight == PreviousWeight(weight_records)
                TDEE == calculate_TDEE(sex, weight, height, age, activity_level)
                daily_deficit == TDEE - daily_intake
                daily_loss == DailyLoss(daily_deficit)
            IN  /\ weight_records' = Append(weight_records, NewWeight(weight, daily_loss))
                /\ UNCHANGED <<pc, err>>
    /\ UNCHANGED <<tool, rejected, profile, tdee, daily_intake, days, goalVars>>

\* return weight_records
LossReturn ==
    /\ tool = "loss" /\ pc = "loop"
    /\ ~(Len(weight_records) - 1 < LoopDays(days))
    /\ pc' = "done"
    /\ UNCHANGED <<tool, err, rejected, profile, tdee, lossVars, goalVars>>

NextLoss == LossCall \/ LossDay \/ LossReturn

SpecLoss == InitLoss /\ [][NextLoss]_vars

\* C1: calculate_weight_loss returns exactly days + 1 weights, the first of
\* them start_weight: the loop never stops early.
C1_LengthAndStart ==
    (tool = "loss" /\ pc = "done")
        => /\ Len(weight_records) = days + 1
           /\ weight_records[1] = start_weight
           /\ err = "none"

\* A trajectory of three days or more has been returned.
C1_Witness ==
    /\ tool = "loss" /\ pc = "done" /\ days >= 3
    /\ Len(weight_records) = days + 1
    /\ weight_records[days + 1] # start_weight

\* C2: with start_weight >= 0 and daily_intake >= 0 every recorded weight is
\* >= 0, at every index and at every moment of the simulation.
C2_NeverNegative ==
    (tool = "loss" /\ start_weight >= 0 /\ daily_intake >= 0)
        => \A i \in 1..Len(weight_records) : weight_records[i] >= 0

\* A day on which the clamp acted: the loss exceeded what weight was left.
C2_Witness ==
    /\ tool = "loss" /\ daily_intake = 0
    /\ \E i \in 2..Len(weight_records) :
          /\ weight_records[i] = 0
          /\ weight_records[i - 1] > 0
          /\ weight_records[i - 1]
               - RoundDiv(calculate_TDEE(sex, weight_records[i - 1], height, age,
                                         activity_level) - daily_intake, KcalPerLb) < 0

\* The deficit of day i, from the weight recorded for the day before.
DeficitOfDay(i) ==
    calculate_TDEE(sex, weight_records[i], height, age, activity_level) - daily_intake

\* C10: every recorded weight follows from the one before it by
\* w[i] = max(0, w[i-1] - (TDEE(w[i-1]) - daily_intake) / 3500), with the
\* expenditure taken at the previous day's weight; a negative deficit never
\* lowers the weight (and raises it by the rounded quotient), a deficit of
\* exactly 0 leaves it unchanged, and neither raises an error.
C10_Recurrence ==
    tool = "loss" =>
        /\ err = "none"
        /\ \A i \in 1..(Len(weight_records) - 1) :
              LET prev == weight_records[i]
                  next == weight_records[i + 1]
                  loss == RoundDiv(DeficitOfDay(i), KcalPerLb)
              IN  /\ next = (IF prev - loss > 0 THEN prev - loss ELSE 0)
                  /\ DeficitOfDay(i) = 0 => next = prev
                  /\ DeficitOfDay(i) < 0 => (next >= prev /\ next = prev - loss)
                  /\ 2 * DeficitOfDay(i) <= -KcalPerLb => next > prev

\* A trajectory that gains weight on a negative deficit, so that the
\* expenditure of its second day differs from that of its first.
C10_Witness ==
    /\ tool = "loss" /\ pc = "done" /\ Len(weight_records) >= 3
    /\ DeficitOfDay(1) < 0
    /\ weight_records[2] > weight_records[1]
    /\ DeficitOfDay(2) # DeficitOfDay(1)
    /\ weight_records[3] > weight_records[2]

\* A neutral day: the intake equals the expenditure and the weight stays.
C10_NeutralDay ==
    /\ tool = "loss" /\ pc = "done" /\ start_weight > 0
    /\ DeficitOfDay(1) = 0
    /\ weight_records[2] = weight_records[1]

-----------------------------------------------------------------------------
(* GoalSimulator: calculate_days_to_goal_weight (estimateDaysToGoalWeight.py) *)

\* len(range(0, stop, 500)): the values 0, 500, 1000, ... below stop.
RangeLen(stop) == IF stop <= 0 THEN 0 ELSE (stop + IntakeStep - 1) \div IntakeStep

\* [initial_TDEE - i for i in range(0, int(initial_TDEE)+1, 500)] + [0]
Candidates(TDEE) ==
    [k \in 1..RangeLen(Trunc(TDEE) + 1) |-> TDEE - (k - 1) * IntakeStep * Scale]
        \o <<0>>

\* The mutant of LoopCondition: >= for >.
LoopConditionInclusive(weight, goal) == weight >= goal

\* while current_weight > goal_weight
LoopCondition(weight, goal) == weight > goal

\* The mutant of Reached: the scenario is appended whatever the weight.
ReachedAlways(weight, goal) == TRUE

\* if current_weight <= goal_weight
Reached(weight, goal) == weight <= goal

\* The mutant of ResetDays: the day counter is not reset for a new candidate.
KeepDays(n) == n

\* days = 0
ResetDays(n) == 0

\* daily_deficit = TDEE - daily_calories, at the weight of the day.
DailyDeficit(weight, intake) ==
    calculate_TDEE(sex, weight, height, age, activity_level) - intake

\* {'Daily Calorie Intake': int(daily_calories), 'Days to Goal': days}
Scenario(daily_calories, n) ==
    [Daily_Calorie_Intake |-> Trunc(daily_calories), Days_to_Goal |-> n]

\* The <<age, height>> pairs of the goal simulations; the last one is a
\* profile the console accepts whose expenditure at 91 pounds is just
\* below zero.
GoalBodies == Bodies \cup {<<35, 80 * Scale>>, <<203, 48 * Scale>>}

\* The <<start_weight, goal_weight>> pairs, in pounds: goals below, at and
\* above the start.
GoalPairs == {<<200, 190>>, <<200, 130>>, <<308, 300>>, <<91, 90>>,
              <<200, 200>>, <<190, 200>>}

InitGoal ==
    /\ tool = "goal" /\ pc = "call" /\ err = "none" /\ rejected = 0
    /\ sex \in Genders
    /\ \E body \in GoalBodies : age = body[1] /\ height = body[2]
    /\ activity_level \in Levels
    /\ \E pair \in GoalPairs :
          start_weight = pair[1] * Scale /\ goal_weight = pair[2] * Scale
    /\ initial_TDEE = 0 /\ daily_calories_scenarios = <<>>
    /\ cand = 0 /\ current_weight = 0 /\ day_count = 0 /\ scenarios = <<>>
    /\ origin = <<>> /\ broke = {}
    /\ tdee = 0
    /\ NoLoss

\* scenarios = []; initial_TDEE = ...; daily_calories_scenarios = ...
GoalCall ==
    /\ tool = "goal" /\ pc = "call"
    /\ IF KeyError(activity_level)
       THEN /\ err' = "KeyError" /\ pc' = "raised"
            /\ UNCHANGED <<initial_TDEE, daily_calories_scenarios>>
       ELSE LET TDEE == calculate_TDEE(sex, start_weight, height, age, activity_level)
            IN  /\ initial_TDEE' = TDEE
                /\ daily_calories_scenarios' = Candidates(TDEE)
                /\ pc' = "for"
                /\ UNCHANGED err
    /\ scenarios' = <<>>
    /\ UNCHANGED <<tool, rejected, profile, tdee, lossVars, goal_weight, cand,
                   current_weight, day_count, origin, broke>>

\* for daily_calories in daily_calories_scenarios: the next candidate.
ForNext ==
    /\ tool = "goal" /\ pc = "for"
    /\ cand < Len(daily_calories_scenarios)
    /\ cand' = cand + 1
    /\ current_weight' = start_weight
    /\ day_count' = ResetDays(day_count)
    /\ pc' = "while"
    /\ UNCHANGED <<tool, err, rejected, profile, tdee, lossVars, goal_weight,
                   initial_TDEE, daily_calories_scenarios, scenarios, origin, broke>>

\* One iteration of the while loop with a positive deficit.
WhileDay ==
    /\ tool = "goal" /\ pc = "while"
    /\ LoopCondition(current_weight, goal_weight)
    /\ DailyDeficit(current_weight, daily_calories_scenarios[cand]) > 0
    /\ day_count < MaxDays
    /\ current_weight' = current_weight
          - DailyLoss(DailyDeficit(current_weight, daily_calories_scenarios[cand]))
    /\ day_count' = day_count + 1
    /\ UNCHANGED <<tool, pc, err, rejected, profile, tdee, lossVars, goal_weight,
                   initial_TDEE, daily_calories_scenarios, cand, scenarios,
                   origin, broke>>

\* if daily_deficit <= 0: break
WhileBreak ==
    /\ tool = "goal" /\ pc = "while"
    /\ LoopCondition(current_weight, goal_weight)
    /\ DailyDeficit(current_weight, daily_calories_scenarios[cand]) <= 0
    /\ broke' = broke \cup {cand}
    /\ pc' = "after"
    /\ UNCHANGED <<tool, err, rejected, profile, tdee, lossVars, goal_weight,
                   initial_TDEE, daily_calories_scenarios, cand, current_weight,
                   day_count, scenarios, origin>>

\* The while condition fails: the loop ends.
WhileExit ==
    /\ tool = "goal" /\ pc = "while"
    /\ ~LoopCondition(current_weight, goal_weight)
    /\ pc' = "after"
    /\ UNCHANGED <<tool, err, rejected, profile, tdee, lossVars, goalVars>>

\* if current_weight <= goal_weight: scenarios.append(...)
Record ==
    /\ tool = "goal" /\ pc = "after"
    /\ IF Reached(current_weight, goal_weight)
       THEN /\ scenarios' = Append(scenarios,
                                   Scenario(daily_calories_scenarios[cand], day_count))
            /\ origin' = Append(origin, cand)
       ELSE UNCHANGED <<scenarios, origin>>
    /\ pc' = "for"
    /\ UNCHANGED <<tool, err, rejected, profile, tdee, lossVars, goal_weight,
                   initial_TDEE, daily_calories_scenarios, cand, current_weight,
                   day_count, broke>>

\* return scenarios
GoalReturn ==
    /\ tool = "goal" /\ pc = "for"
    /\ ~(cand < Len(daily_calories_scenarios))
    /\ pc' = "done"
    /\ UNCHANGED <<tool, err, rejected, profile, tdee, lossVars, goalVars>>

NextGoal ==
    GoalCall \/ ForNext \/ WhileDay \/ WhileBreak \/ WhileExit \/ Record \/ GoalReturn

SpecGoal == InitGoal /\ [][NextGoal]_vars

ValidGoal == start_weight > goal_weight /\ goal_weight > 0

\* The candidate being simulated.
daily_calories == daily_calories_scenarios[cand]

\* C3 as claimed: with start_weight > goal_weight > 0, a candidate whose
\* deficit is > 0 on the first day keeps a deficit > 0 on every later day and
\* every day brings its weight strictly closer to the goal, so that its loop
\* ends with current_weight <= goal_weight.  (The day's computation depends
\* on current_weight alone: a day that leaves the weight unchanged repeats
\* for ever.)
C3_PositiveDeficitConverges ==
    (/\ tool = "goal" /\ pc = "while" /\ ValidGoal
     /\ LoopCondition(current_weight, goal_weight)
     /\ DailyDeficit(start_weight, daily_calories) > 0)
        => /\ DailyDeficit(current_weight, daily_calories) > 0
           /\ current_weight - DailyLoss(DailyDeficit(current_weight, daily_calories))
                 < current_weight

\* C4 as claimed: a call with goal_weight >= start_weight or goal_weight <= 0
\* fails with InvalidGoal and returns no scenarios.
C4_InvalidGoalRejected ==
    (tool = "goal" /\ pc = "done" /\ ~ValidGoal)
        => (err = "InvalidGoal" /\ scenarios = <<>>)

\* C4 as amended: the function does not validate the goal and raises no
\* error for it; called with goal_weight >= start_weight it returns one
\* scenario for every candidate intake, each with Days to Goal = 0.
C4_GoalNotValidated ==
    (tool = "goal" /\ goal_weight >= start_weight)
        => /\ err = "none"
           /\ pc # "raised"
           /\ \A i \in 1..Len(scenarios) :
                 /\ scenarios[i].Days_to_Goal = 0
                 /\ scenarios[i].Daily_Calorie_Intake = Trunc(daily_calories_scenarios[i])
           /\ pc = "done" => Len(scenarios) = Len(daily_calories_scenarios)

\* A call with the goal above the start has returned its zero-day scenarios.
C4_Witness ==
    /\ tool = "goal" /\ pc = "done" /\ goal_weight > start_weight
    /\ Len(scenarios) >= 3
    /\ scenarios[1].Days_to_Goal = 0

\* C5: every scenario has Days to Goal >= 0 and none comes from a candidate
\* whose loop met a deficit <= 0; such a candidate is absent from the result
\* and raises no error.  With start_weight > goal_weight > 0 the deficit of a
\* candidate about to be appended is > 0 at the weight it ended on, too.
C5_NoAbortedScenario ==
    tool = "goal" =>
        /\ err = "none"
        /\ Len(origin) = Len(scenarios)
        /\ \A i \in 1..Len(scenarios) :
              /\ scenarios[i].Days_to_Goal >= 0
              /\ origin[i] \notin broke
        /\ (pc = "after" /\ cand \in broke) => current_weight > goal_weight
        /\ (pc = "after" /\ ValidGoal /\ current_weight <= goal_weight)
              => DailyDeficit(current_weight, daily_calories) > 0
        /\ (pc = "done" /\ ValidGoal) =>
              \A k \in broke : \A i \in 1..Len(origin) : origin[i] # k

\* A call has returned the scenarios of its later candidates without the
\* first one, whose loop was aborted.
C5_Witness ==
    /\ tool = "goal" /\ pc = "done" /\ ValidGoal
    /\ 1 \in broke
    /\ Len(scenarios) >= 2
    /\ origin[1] = 2
    /\ scenarios[1].Days_to_Goal > 0

\* C6: with start_weight > goal_weight > 0, of two returned scenarios the one
\* with the lower intake has fewer or equal Days to Goal: the list is in
\* decreasing order of intake, Days to Goal is non-increasing along it and,
\* if it is not empty, it ends with the zero-intake scenario.
C6_LowerIntakeFewerDays ==
    (tool = "goal" /\ ValidGoal) =>
        /\ \A i, j \in 1..Len(scenarios) :
              /\ (i < j) =>
                    /\ scenarios[i].Daily_Calorie_Intake >= scenarios[j].Daily_Calorie_Intake
                    /\ scenarios[i].Days_to_Goal >= scenarios[j].Days_to_Goal
              /\ (scenarios[i].Daily_Calorie_Intake < scenarios[j].Daily_Calorie_Intake)
                    => scenarios[i].Days_to_Goal <= scenarios[j].Days_to_Goal
        /\ (pc = "done" /\ scenarios # <<>>) =>
              /\ scenarios[Len(scenarios)].Daily_Calorie_Intake = 0
              /\ origin[Len(origin)] = Len(daily_calories_scenarios)

\* A returned list of four scenarios or more whose zero-intake scenario takes
\* strictly fewer days than its first.
C6_Witness ==
    /\ tool = "goal" /\ pc = "done" /\ ValidGoal
    /\ Len(scenarios) >= 4
    /\ scenarios[Len(scenarios)].Daily_Calorie_Intake = 0
    /\ scenarios[Len(scenarios)].Days_to_Goal < scenarios[1].Days_to_Goal

\* The candidates as the claim lists them: initial_TDEE - 500 k for
\* k = 0, 1, 2, ... as long as the value is >= 0, then one final 0.
ClaimedCandidates(TDEE) ==
    LET ks == {k \in 0..(Max0(TDEE) \div (IntakeStep * Scale)) :
                  TDEE - k * IntakeStep * Scale >= 0}
    IN  [k \in 1..Cardinality(ks) |-> TDEE - (k - 1) * IntakeStep * Scale] \o <<0>>

\* C9 as claimed: the candidate list is initial_TDEE - 500 k while that value
\* is >= 0, in decreasing order, followed by one final 0; no candidate is
\* negative, and the candidates are taken in list order.
C9_CandidateList ==
    (tool = "goal" /\ pc \notin {"call", "raised"}) =>
        /\ daily_calories_scenarios = ClaimedCandidates(initial_TDEE)
        /\ \A k \in 1..Len(daily_calories_scenarios) : daily_calories_scenarios[k] >= 0
        /\ \A i \in 1..Len(origin) : origin[i] <= cand

-----------------------------------------------------------------------------
(* InputCollector: get_input and get_user_info of both scripts, and main *)

\* The lines the console can deliver: words, whole numbers and decimals.
\* num is the number in 1/Scale, text is what str(input()) returns.
Word(t) == [kind |-> "word", num |-> 0, text |-> t]
Whole(n, t) == [kind |-> "int", num |-> n * Scale, text |-> t]
Decimal(tenths, t) == [kind |-> "dec", num |-> (tenths * Scale) \div 10, text |-> t]

ConsoleLines ==
    {Word("male"), Word("Male"), Word("FEMALE"), Word("other"), Word(""),
     Word("sedentary"), Word("Extra Active"), Word("lazy")}
    \cup {Whole(-1, "-1"), Whole(0, "0"), Whole(1, "1"), Whole(2, "2"),
          Whole(14, "14"), Whole(15, "15"), Whole(90, "90")}
    \cup {Decimal(479, "47.9"), Decimal(485, "48.5"), Decimal(899, "89.9")}

\* input_type(input(prompt)) raises ValueError: int() of anything but a
\* whole number, float() of a word; str() never does.
ValueError(line, input_type) ==
    CASE input_type = "int" -> line.kind # "int"
      [] input_type = "float" -> line.kind = "word"
      [] OTHER -> FALSE

\* The converted value: an int in whole units, a float in 1/Scale, a str as
\* its text.
Converted(line, input_type) ==
    CASE input_type = "int" -> line.num \div Scale
      [] input_type = "float" -> line.num
      [] OTHER -> line.text

\* One pass of get_input's loop with a numeric type and a min_value: the
\* line is returned unless the conversion fails or the value is <= min_value.
Returned(line, input_type, min_value) ==
    /\ ~ValueError(line, input_type)
    /\ ~(Converted(line, input_type) <= min_value)

\* The minimum of a float prompt given in tenths (47.9, 89.9).
Tenths(n) == (n * Scale) \div 10

\* Another line is asked for; the model counts the first MaxRejected.
Reprompt ==
    /\ rejected' = IF rejected < MaxRejected THEN rejected + 1 ELSE rejected
    /\ UNCHANGED <<tool, pc, err, profile, tdee, lossVars, goalVars>>

InitInput ==
    /\ tool \in {"loss", "goal"} /\ pc = "sex" /\ err = "none" /\ rejected = 0
    /\ sex = "" /\ age = 0 /\ height = 0 /\ start_weight = 0 /\ activity_level = ""
    /\ tdee = 0
    /\ NoLoss /\ NoGoal

\* The gender prompt: estimateLossFromDiet.py asks again until the answer is
\* 'male' or 'female'; estimateDaysToGoalWeight.py takes any line.
AskSex ==
    /\ pc = "sex"
    /\ \E line \in ConsoleLines :
          LET answer == Lower(Converted(line, "str"))
          IN  IF tool = "loss" /\ answer \notin {"male", "female"}
              THEN Reprompt
              ELSE /\ sex' = answer /\ pc' = "age"
                   /\ UNCHANGED <<tool, err, rejected, age, height, start_weight,
                                  activity_level, tdee, lossVars, goalVars>>

\* get_input("Enter your age: ", int, 14, ...)
AskAge ==
    /\ pc = "age"
    /\ \E line \in ConsoleLines :
          IF Returned(line, "int", 14)
          THEN /\ age' = Converted(line, "int") /\ pc' = "height"
               /\ UNCHANGED <<tool, err, rejected, sex, height, start_weight,
                              activity_level, tdee, lossVars, goalVars>>
          ELSE Reprompt

\* get_input("Enter your height (in inches): ", float, 47.9, ...)
AskHeight ==
    /\ pc = "height"
    /\ \E line \in ConsoleLines :
          IF Returned(line, "float", Tenths(479))
          THEN /\ height' = Converted(line, "float") /\ pc' = "start_weight"
               /\ UNCHANGED <<tool, err, rejected, sex, age, start_weight,
                              activity_level, tdee, lossVars, goalVars>>
          ELSE Reprompt

\* get_input("Enter your starting weight (in lbs): ", float, 89.9, ...)
AskStartWeight ==
    /\ pc = "start_weight"
    /\ \E line \in ConsoleLines :
          IF Returned(line, "float", Tenths(899))
          THEN /\ start_weight' = Converted(line, "float") /\ pc' = "activity_level"
               /\ UNCHANGED <<tool, err, rejected, sex, age, height,
                              activity_level, tdee, lossVars, goalVars>>
          ELSE Reprompt

\* The activity prompt: estimateLossFromDiet.py asks again until the answer
\* is one of the five levels; estimateDaysToGoalWeight.py takes any line.
AskActivity ==
    /\ pc = "activity_level"
    /\ \E line \in ConsoleLines :
          LET answer == Lower(Converted(line, "str"))
          IN  IF tool = "loss" /\ answer \notin Levels
              THEN Reprompt
              ELSE /\ activity_level' = answer
                   /\ pc' = IF tool = "loss" THEN "daily_intake" ELSE "goal_weight"
                   /\ UNCHANGED <<tool, err, rejected, sex, age, height, start_weight,
                                  tdee, lossVars, goalVars>>

\* get_input("Enter your daily caloric intake: ", int, -1, ...)
AskIntake ==
    /\ tool = "loss" /\ pc = "daily_intake"
    /\ \E line \in ConsoleLines :
          IF Returned(line, "int", -1)
          THEN /\ daily_intake' = Converted(line, "int") * Scale /\ pc' = "days"
               /\ UNCHANGED <<tool, err, rejected, profile, tdee, days,
                              weight_records, goalVars>>
          ELSE Reprompt

\* get_input("Enter the number of days: ", int, 0, ...); get_user_info
\* returns and main calls calculate_weight_loss.
AskDays ==
    /\ tool = "loss" /\ pc = "days"
    /\ \E line \in ConsoleLines :
          IF Returned(line, "int", 0)
          THEN /\ days' = Converted(line, "int") /\ pc' = "call"
               /\ UNCHANGED <<tool, err, rejected, profile, tdee, daily_intake,
                              weight_records, goalVars>>
          ELSE Reprompt

\* get_input("Enter goal weight (lbs): ", float, 0, ...); get_user_info
\* returns and main calls calculate_days_to_goal_weight.
AskGoal ==
    /\ tool = "goal" /\ pc = "goal_weight"
    /\ \E line \in ConsoleLines :
          IF Returned(line, "float", 0)
          THEN /\ goal_weight' = Converted(line, "float") /\ pc' = "call"
               /\ UNCHANGED <<tool, err, rejected, profile, tdee, lossVars,
                              initial_TDEE, daily_calories_scenarios, cand,
                              current_weight, day_count, scenarios, origin, broke>>
          ELSE Reprompt

Prompting == {"sex", "age", "height", "start_weight", "activity_level",
              "daily_intake", "days", "goal_weight"}

\* The console dialogue of either script and the start of its simulation:
\* the whole trajectory of estimateLossFromDiet.py, and of
\* estimateDaysToGoalWeight.py the statements up to the candidate list (its
\* loops are SpecGoal's).
NextInput ==
    \/ AskSex \/ AskAge \/ AskHeight \/ AskStartWeight \/ AskActivity
    \/ AskIntake \/ AskDays \/ AskGoal
    \/ LossCall \/ LossDay \/ LossReturn
    \/ GoalCall

SpecInput == InitInput /\ [][NextInput]_vars

\* C7 as claimed: in both tools the simulation is only started with a gender
\* of 'male' or 'female' and one of the five activity levels, and no console
\* input makes a tool end with an uncaught error.
C7_OnlyRecognizedProfiles ==
    pc \notin (Prompting \cup {"call"})
        => /\ sex \in Genders
           /\ activity_level \in Levels
           /\ err = "none"

====
